---- MODULE Spec2Model ----
EXTENDS Integers, Sequences, FiniteSets, TLC

(***************************************************************************)
(* 64-bit machine words.  A u64 is kept as four 16-bit limbs, least        *)
(* significant first, so that every operation keeps the full 64-bit width  *)
(* of the Rust code (wrapping_add, wrapping_sub, wrapping_mul, >>, <<, %). *)
(***************************************************************************)
LimbBase == 2^16

W0 == <<0, 0, 0, 0>>
W1 == <<1, 0, 0, 0>>

\* u64 from a small natural number (below 2^31)
ToWord(n) == <<n % LimbBase, n \div LimbBase, 0, 0>>

\* u64::wrapping_add
WAdd(a, b) ==
  LET s0 == a[1] + b[1]
      s1 == a[2] + b[2] + (s0 \div LimbBase)
      s2 == a[3] + b[3] + (s1 \div LimbBase)
      s3 == a[4] + b[4] + (s2 \div LimbBase)
  IN  <<s0 % LimbBase, s1 % LimbBase, s2 % LimbBase, s3 % LimbBase>>

\* the carry out of bit 63 of a + b: the condition under which the checked
\* operator `+` of a build with overflow checks panics
AddOverflows(a, b) ==
  LET s0 == a[1] + b[1]
      s1 == a[2] + b[2] + (s0 \div LimbBase)
      s2 == a[3] + b[3] + (s1 \div LimbBase)
      s3 == a[4] + b[4] + (s2 \div LimbBase)
  IN  s3 >= LimbBase

\* u64::wrapping_sub: a + ~b + 1
WSub(a, b) ==
  LET s0 == a[1] + (LimbBase - 1 - b[1]) + 1
      s1 == a[2] + (LimbBase - 1 - b[2]) + (s0 \div LimbBase)
      s2 == a[3] + (LimbBase - 1 - b[3]) + (s1 \div LimbBase)
      s3 == a[4] + (LimbBase - 1 - b[4]) + (s2 \div LimbBase)
  IN  <<s0 % LimbBase, s1 % LimbBase, s2 % LimbBase, s3 % LimbBase>>

\* a * c (mod 2^64) for a multiplier c below 2^15
MulSmall(a, c) ==
  LET p0 == a[1] * c
      p1 == a[2] * c + (p0 \div LimbBase)
      p2 == a[3] * c + (p1 \div LimbBase)
      p3 == a[4] * c + (p2 \div LimbBase)
  IN  <<p0 % LimbBase, p1 % LimbBase, p2 % LimbBase, p3 % LimbBase>>

\* a << (16 * k) (mod 2^64)
ShlLimbs(a, k) ==
  LET L(i) == IF i - k >= 1 THEN a[i - k] ELSE 0
  IN  <<L(1), L(2), L(3), L(4)>>

\* a >> (16 * k)
ShrLimbs(a, k) ==
  LET L(i) == IF i + k <= 4 THEN a[i + k] ELSE 0
  IN  <<L(1), L(2), L(3), L(4)>>

\* the operator << of u64 for a shift amount below 64
Shl(a, n) == ShlLimbs(MulSmall(a, 2^(n % 16)), n \div 16)

\* the operator >> of u64 for a shift amount below 64
Shr(a, n) ==
  LET s == ShrLimbs(a, n \div 16)
      d == 2^(n % 16)
      L(i) == (s[i] \div d) + (IF i < 4 THEN (s[i + 1] % d) * (LimbBase \div d) ELSE 0)
  IN  <<L(1), L(2), L(3), L(4)>>

\* u64::wrapping_mul: eight byte-sized partial products, shifted into place
WMul(a, b) ==
  LET Part(k) ==
        LET limb == b[(k \div 2) + 1]
            byte == IF k % 2 = 0 THEN limb % 256 ELSE limb \div 256
        IN  IF byte = 0 THEN W0 ELSE Shl(MulSmall(a, byte), 8 * k)
  IN  WAdd(WAdd(WAdd(Part(0), Part(1)), WAdd(Part(2), Part(3))),
           WAdd(WAdd(Part(4), Part(5)), WAdd(Part(6), Part(7))))

\* the operator % of u64 for a modulus below 2^15
WMod(a, m) ==
  LET r3 == a[4] % m
      r2 == (r3 * LimbBase + a[3]) % m
      r1 == (r2 * LimbBase + a[2]) % m
      r0 == (r1 * LimbBase + a[1]) % m
  IN  ToWord(r0)

\* u64 as a natural number, for values below 2^31 only
Small(a) == a[1] + LimbBase * a[2]

\* 2^n as a u64, n below 64
P2(n) == Shl(W1, n)

\* an i64 reinterpreted as u64 (two's complement): the negation of a
NegW(a) == WSub(W0, a)


(***************************************************************************)
(* Parameters.  LWE_DIM is the length of masks and secret keys; the model  *)
(* explores a vector length far below the configured one.  The reduced     *)
(* modulus 2 * LWE_DIM of the modulus switch is kept at the value the      *)
(* shift amounts 52 (modswitch) and 6 (decode_modswitched) are calibrated  *)
(* to, 2N = 2^11, whatever vector length is explored.                      *)
(***************************************************************************)
LWE_DIM == 64
TwoN == 2048
ELL == 2

None == <<>>

\* indices of an array of LWE_DIM entries; index i of the code is i + 1 here
Idx == 1..LWE_DIM

(***************************************************************************)
(* lwe.rs: LweCiphertext is [mask |-> array of LWE_DIM u64, body |-> u64], *)
(* LweSecretKey an array of LWE_DIM u64.                                   *)
(***************************************************************************)

\* mask.iter().zip(sk.iter()).map(|(a_j, s_j)| a_j * s_j).map(Wrapping).sum()
\* The wrapping sum is associative and is folded by halves here.  The
\* products a_j * s_j are exact for the keys of lwe_keygen (s_j is 0 or 1).
RECURSIVE DotRange(_, _, _, _)
DotRange(mask, key, lo, hi) ==
  IF lo > hi THEN W0
  ELSE IF lo = hi THEN WMul(mask[lo], key[lo])
  ELSE LET mid == (lo + hi) \div 2
       IN  WAdd(DotRange(mask, key, lo, mid), DotRange(mask, key, mid + 1, hi))

DotProd(mask, key) == DotRange(mask, key, 1, LWE_DIM)

\* LweCiphertext::encrypt; the Gaussian sample e (an i64 in two's
\* complement, added by wrapping_add_signed) and the uniformly drawn mask
\* are its two random draws
encrypt(message, key, e, mask) ==
  LET mu_star == WAdd(message, e)
  IN  [mask |-> mask, body |-> WAdd(DotProd(mask, key), mu_star)]

\* LweCiphertext::decrypt
decrypt(ct, key) == WSub(ct.body, DotProd(ct.mask, key))

\* One iteration of the loop of decrypt_modswitched.  The sum dot_prod +
\* mask[i] is the checked operator +: a build with overflow checks panics
\* when it exceeds 64 bits, a build without them wraps.
DmsStep(acc, ct, key, i, checks) ==
  IF key[i] = W1
    THEN IF checks /\ AddOverflows(acc.dot_prod, ct.mask[i])
           THEN [acc EXCEPT !.panic = TRUE]
           ELSE [acc EXCEPT !.dot_prod = WMod(WAdd(acc.dot_prod, ct.mask[i]), TwoN)]
    ELSE acc

\* the iterations lo..hi of the loop of decrypt_modswitched, run in order
\* (the first half, then the second); a panic ends the loop
RECURSIVE DmsLoop(_, _, _, _, _, _)
DmsLoop(acc, ct, key, lo, hi, checks) ==
  IF acc.panic THEN acc
  ELSE IF lo = hi THEN DmsStep(acc, ct, key, lo, checks)
  ELSE LET mid == (lo + hi) \div 2
       IN  DmsLoop(DmsLoop(acc, ct, key, lo, mid, checks), ct, key, mid + 1, hi, checks)

\* LweCiphertext::decrypt_modswitched: [panic, mu_star]
decrypt_modswitched(ct, key, checks) ==
  LET acc == DmsLoop([panic |-> FALSE, dot_prod |-> W0], ct, key, 1, LWE_DIM, checks)
  IN  IF acc.panic THEN [panic |-> TRUE, mu_star |-> None]
      ELSE [panic |-> FALSE, mu_star |-> WMod(WSub(ct.body, acc.dot_prod), TwoN)]

\* add whose body is subtracted instead of added
add_body_subtracted(lhs, rhs) ==
  [mask |-> [i \in Idx |-> WAdd(lhs.mask[i], rhs.mask[i])],
   body |-> WSub(lhs.body, rhs.body)]

\* LweCiphertext::add
add(lhs, rhs) ==
  [mask |-> [i \in Idx |-> WAdd(lhs.mask[i], rhs.mask[i])],
   body |-> WAdd(lhs.body, rhs.body)]

\* sub whose masks are added instead of subtracted
sub_mask_added(lhs, rhs) ==
  [mask |-> [i \in Idx |-> WAdd(lhs.mask[i], rhs.mask[i])],
   body |-> WSub(lhs.body, rhs.body)]

\* LweCiphertext::sub
sub(lhs, rhs) ==
  [mask |-> [i \in Idx |-> WSub(lhs.mask[i], rhs.mask[i])],
   body |-> WSub(lhs.body, rhs.body)]

\* LweCiphertext::multiply_constant_assign
multiply_constant_assign(ct, constant) ==
  [mask |-> [i \in Idx |-> WMul(ct.mask[i], constant)],
   body |-> WMul(ct.body, constant)]

\* the rescaling without the rounding step: v >> 53
RescaleTruncating(v) == Shr(v, 53)

\* ((v >> 52) + 1) >> 1; the sum fits in 64 bits (v >> 52 is below 2^12)
Rescale(v) == Shr(WAdd(Shr(v, 52), W1), 1)

\* LweCiphertext::modswitch
modswitch(ct) ==
  [mask |-> [i \in Idx |-> Rescale(ct.mask[i])],
   body |-> Rescale(ct.body)]

\* LweCiphertext::default
default == [mask |-> [i \in Idx |-> W0], body |-> W0]

\* ggsw::decomposition: the two base-2^8 digits of val in the bit windows
\* 48..55 and 56..63, the positions compute_ksk shifts the key bits to
decomposition(val) ==
  <<Small(Shr(val, 48)) % 256, Small(Shr(val, 56)) % 256>>

\* the subtrahends of iteration i with ksk[ELL * i] read for both digits
KsTermSameEntry(ct, key, i) ==
  LET d == decomposition(ct.mask[i])
  IN  add(multiply_constant_assign(key[ELL * (i - 1) + 1], ToWord(d[1])),
          multiply_constant_assign(key[ELL * (i - 1) + 1], ToWord(d[2])))

\* the two subtrahends of iteration i of the loop of keyswitch, added up:
\* ksk[ELL * i] and ksk[ELL * i + 1], scaled by the digits of mask[i]
KsTerm(ct, key, i) ==
  LET d == decomposition(ct.mask[i])
  IN  add(multiply_constant_assign(key[ELL * (i - 1) + 1], ToWord(d[1])),
          multiply_constant_assign(key[ELL * (i - 1) + 2], ToWord(d[2])))

\* the wrapping sum of the subtrahends of iterations lo..hi, by halves
RECURSIVE KsRange(_, _, _, _)
KsRange(ct, key, lo, hi) ==
  IF lo = hi THEN KsTerm(ct, key, lo)
  ELSE LET mid == (lo + hi) \div 2
       IN  add(KsRange(ct, key, lo, mid), KsRange(ct, key, mid + 1, hi))

\* LweCiphertext::keyswitch.  The loop subtracts, one after the other, terms
\* that do not depend on the running ciphertext; in wrapping arithmetic that
\* is the subtraction of their wrapping sum.
keyswitch(ct, key) ==
  LET start == [default EXCEPT !.body = ct.body]
  IN  sub(start, KsRange(ct, key, 1, LWE_DIM))

\* compute_ksk with the shift 40 + 8 * j, one digit too low
compute_ksk_low_shift(sk1, key2, noises, masks) ==
  [n \in 1..(LWE_DIM * ELL) |->
             LET i == (n - 1) \div ELL
                 j == (n - 1) % ELL
                 message == Shl(sk1[i + 1], 40 + (8 * j))
             IN  encrypt(message, key2, noises[n], masks[n])]

\* lwe::compute_ksk: entry ELL * i + j is pushed (ELL * i + j)-th; noises and
\* masks are the random draws of its LWE_DIM * ELL calls of encrypt
compute_ksk(sk1, key2, noises, masks) ==
  [n \in 1..(LWE_DIM * ELL) |->
             LET i == (n - 1) \div ELL
                 j == (n - 1) % ELL
                 message == Shl(sk1[i + 1], 40 + (8 * (j + 1)))
             IN  encrypt(message, key2, noises[n], masks[n])]

\* lwe::encode
encode(msg) == Shl(ToWord(msg), 60)

\* decode without the rounding step: the top four bits of m
decode_truncating(m) == Small(Shr(m, 60)) % 16

\* lwe::decode
decode(m) == Small(Shr(WAdd(Shr(m, 59), W1), 1)) % 16

\* lwe::decode_modswitched
decode_modswitched(m) == Small(Shr(WAdd(Shr(m, 6), W1), 1)) % 16

(***************************************************************************)
(* State: the values a caller of the library holds between calls.          *)
(***************************************************************************)
VARIABLES
  pc,        \* the call made last
  sk,        \* the secret key (the source key of a key switch)
  sk2,       \* the destination key of a key switch
  ksk,       \* the key-switching key
  ksk_e,     \* the noise drawn for each entry of ksk
  m1, e1,    \* message and noise of the first encryption
  m2, e2,    \* message and noise of the second encryption
  ct1, ct2,  \* the two fresh ciphertexts
  op,        \* the operation that produced res
  res,       \* the derived ciphertext
  mu,        \* the decrypted value
  pt,        \* the decoded message
  panicked   \* a call ended in a panic

vars == <<pc, sk, sk2, ksk, ksk_e, m1, e1, m2, e2, ct1, ct2, op, res, mu, pt, panicked>>

(***************************************************************************)
(* The values drawn for keys, masks and noises.                            *)
(***************************************************************************)
MaxWord == <<65535, 65535, 65535, 65535>>

\* the key whose first h entries are 1
Ones(h) == [i \in Idx |-> IF i <= h THEN W1 ELSE W0]
\* the key whose entries at odd indices of the code are 1
Alternating == [i \in Idx |-> IF i % 2 = 0 THEN W1 ELSE W0]

\* the mask alternating between the words u and v
MaskOf(u, v) == [i \in Idx |-> IF i % 2 = 1 THEN u ELSE v]

Keys == {Ones(0), Ones(LWE_DIM), Alternating}
MaskWords == {W0, MaxWord, WSub(P2(52), W1)}
Masks == {MaskOf(u, v) : u, v \in MaskWords}
\* noises inside the decoding margin [-2^59, 2^59), at its two ends, and
\* the two nearest values outside it
Noises ==
  {W0, W1, NegW(W1), WSub(P2(59), W1), NegW(P2(59)), P2(59), NegW(WAdd(P2(59), W1))}

\* -2^59 <= e < 2^59 for an i64 e in two's complement
InMargin(e) == Shr(WAdd(e, P2(59)), 60) = W0

(***************************************************************************)
(* Calls.                                                                  *)
(***************************************************************************)
Init ==
  /\ pc = "start"
  /\ sk = None /\ sk2 = None /\ ksk = None /\ ksk_e = None
  /\ m1 = None /\ e1 = None /\ m2 = None /\ e2 = None
  /\ ct1 = None /\ ct2 = None
  /\ op = "none" /\ res = None /\ mu = None /\ pt = None
  /\ panicked = FALSE

\* lwe_keygen
Keygen(KeySet) ==
  /\ pc = "start"
  /\ sk' \in KeySet
  /\ pc' = "keyed"
  /\ UNCHANGED <<sk2, ksk, ksk_e, m1, e1, m2, e2, ct1, ct2, op, res, mu, pt, panicked>>

\* ct1 = LweCiphertext::encrypt(encode(m), sk)
EncryptFirst(NoiseSet, MaskSet) ==
  /\ pc = "keyed"
  /\ \E m \in 0..15, e \in NoiseSet, a \in MaskSet :
       /\ m1' = m
       /\ e1' = e
       /\ ct1' = encrypt(encode(m), sk, e, a)
  /\ pc' = "one"
  /\ UNCHANGED <<sk, sk2, ksk, ksk_e, m2, e2, ct2, op, res, mu, pt, panicked>>

\* ct2 = LweCiphertext::encrypt(encode(m), sk)
EncryptSecond(NoiseSet, MaskSet) ==
  /\ pc = "one"
  /\ \E m \in 0..15, e \in NoiseSet, a \in MaskSet :
       /\ m2' = m
       /\ e2' = e
       /\ ct2' = encrypt(encode(m), sk, e, a)
  /\ pc' = "two"
  /\ UNCHANGED <<sk, sk2, ksk, ksk_e, m1, e1, ct1, op, res, mu, pt, panicked>>

\* res = ct1.add(ct2)
DoAdd ==
  /\ pc = "two"
  /\ res' = add(ct1, ct2)
  /\ op' = "add"
  /\ pc' = "combined"
  /\ UNCHANGED <<sk, sk2, ksk, ksk_e, m1, e1, m2, e2, ct1, ct2, mu, pt, panicked>>

\* res = ct1.sub(ct2)
DoSub ==
  /\ pc = "two"
  /\ res' = sub(ct1, ct2)
  /\ op' = "sub"
  /\ pc' = "combined"
  /\ UNCHANGED <<sk, sk2, ksk, ksk_e, m1, e1, m2, e2, ct1, ct2, mu, pt, panicked>>

\* mu = ct.decrypt(sk), of the fresh ciphertext or of the combined one
DoDecrypt ==
  /\ pc \in {"one", "combined"}
  /\ mu' = decrypt(IF pc = "one" THEN ct1 ELSE res, sk)
  /\ pc' = "decrypted"
  /\ UNCHANGED <<sk, sk2, ksk, ksk_e, m1, e1, m2, e2, ct1, ct2, op, res, pt, panicked>>

\* pt = decode(mu)
DoDecode ==
  /\ pc = "decrypted"
  /\ pt' = decode(mu)
  /\ pc' = "decoded"
  /\ UNCHANGED <<sk, sk2, ksk, ksk_e, m1, e1, m2, e2, ct1, ct2, op, res, mu, panicked>>

\* key generation, encryption, decryption, decoding (test_keygen_enc_dec)
Next ==
  \/ Keygen(Keys)
  \/ EncryptFirst(Noises, Masks)
  \/ DoDecrypt
  \/ DoDecode

Spec == Init /\ [][Next]_vars

\* C1: LWE round trip.  For every binary key, mask, message m in 0..15 and
\* noise e with -2^59 <= e < 2^59, decode(decrypt(encrypt(encode(m)))) = m.
RoundTrip ==
  (pc = "decoded" /\ op = "none" /\ InMargin(e1)) => pt = m1

\* the message 0 under the most negative admitted noise, where the noisy
\* value wraps below zero, decoded under the all-ones key
RoundTripWitness ==
  /\ pc = "decoded" /\ op = "none"
  /\ sk = Ones(LWE_DIM)
  /\ m1 = 0 /\ e1 = NegW(P2(59))
  /\ mu = WSub(W0, P2(59))
  /\ pt = 0

(***************************************************************************)
(* Homomorphic addition and subtraction (test_add, test_sub).              *)
(***************************************************************************)
HomKeys == {Ones(LWE_DIM), Alternating}
HomMasks1 == {MaskOf(MaxWord, WSub(P2(52), W1))}
HomMasks2 == {MaskOf(P2(54), MaxWord)}
\* every sum and difference of a noise of HomNoises1 and one of HomNoises2
\* is within the range of an i64
HomNoises1 == {P2(58), NegW(P2(58))}
HomNoises2 == {W0, WSub(P2(58), W1), P2(58), NegW(P2(58))}

NextHom ==
  \/ Keygen(HomKeys)
  \/ EncryptFirst(HomNoises1, HomMasks1)
  \/ EncryptSecond(HomNoises2, HomMasks2)
  \/ DoAdd
  \/ DoSub
  \/ DoDecrypt
  \/ DoDecode

SpecHom == Init /\ [][NextHom]_vars

\* C4: LWE additive homomorphism.  For noises with -2^59 <= e1 + e2 < 2^59
\* the sum of two ciphertexts decrypts and decodes to (m1 + m2) mod 16.
AddHomomorphic ==
  (pc = "decoded" /\ op = "add" /\ InMargin(WAdd(e1, e2)))
    => pt = (m1 + m2) % 16

\* 15 + 5 wraps to 4, with the summed noise at the top of the margin
AddHomomorphicWitness ==
  /\ pc = "decoded" /\ op = "add"
  /\ m1 = 15 /\ m2 = 5
  /\ e1 = P2(58) /\ e2 = WSub(P2(58), W1)
  /\ pt = 4

\* C5: LWE subtractive homomorphism.  For noises with -2^59 <= e1 - e2 <
\* 2^59 the difference of two ciphertexts decrypts and decodes to
\* (m1 - m2) mod 16.
SubHomomorphic ==
  (pc = "decoded" /\ op = "sub" /\ InMargin(WSub(e1, e2)))
    => pt = (m1 - m2) % 16

\* 2 - 15 wraps to 3, with the noise difference at the bottom of the margin
SubHomomorphicWitness ==
  /\ pc = "decoded" /\ op = "sub"
  /\ m1 = 2 /\ m2 = 15
  /\ e1 = NegW(P2(58)) /\ e2 = P2(58)
  /\ pt = 3

(***************************************************************************)
(* Modulus switch (test_modswitch).                                        *)
(***************************************************************************)
MsKeys == {Ones(0), Ones(1), Ones(63), Ones(LWE_DIM)}
MsMaskWords == {WSub(P2(52), W1), P2(52), MaxWord}
MsMasks == {MaskOf(u, v) : u, v \in MsMaskWords}
MsNoises == {W0, WSub(P2(58), W1), NegW(WSub(P2(58), W1))}

\* -2^58 < e < 2^58 for an i64 e in two's complement
InHalfMargin(e) == e # P2(58) /\ Shr(WAdd(e, WSub(P2(58), W1)), 59) = W0

\* the number of entries of key equal to 1
Weight(key) == Cardinality({i \in Idx : key[i] = W1})

\* res = ct1.modswitch()
DoModswitch ==
  /\ pc = "one"
  /\ res' = modswitch(ct1)
  /\ op' = "modswitch"
  /\ pc' = "modswitched"
  /\ UNCHANGED <<sk, sk2, ksk, ksk_e, m1, e1, m2, e2, ct1, ct2, mu, pt, panicked>>

\* mu = ct.decrypt_modswitched(sk), of the modulus-switched ciphertext or of
\* the fresh one, in a build with or without overflow checks
DoDecryptModswitched ==
  /\ pc \in {"one", "modswitched"}
  /\ \E checks \in BOOLEAN :
       LET r == decrypt_modswitched(IF pc = "one" THEN ct1 ELSE res, sk, checks)
       IN  /\ panicked' = r.panic
           /\ mu' = r.mu_star
           /\ pc' = IF r.panic THEN "panicked" ELSE "ms_decrypted"
  /\ UNCHANGED <<sk, sk2, ksk, ksk_e, m1, e1, m2, e2, ct1, ct2, op, res, pt>>

\* pt = decode_modswitched(mu)
DoDecodeModswitched ==
  /\ pc = "ms_decrypted"
  /\ pt' = decode_modswitched(mu)
  /\ pc' = "ms_decoded"
  /\ UNCHANGED <<sk, sk2, ksk, ksk_e, m1, e1, m2, e2, ct1, ct2, op, res, mu, panicked>>

NextModswitch ==
  \/ Keygen(MsKeys)
  \/ EncryptFirst(MsNoises, MsMasks)
  \/ DoModswitch
  \/ DoDecryptModswitched
  \/ DoDecodeModswitched

SpecModswitch == Init /\ [][NextModswitch]_vars

\* C3 as stated: for every binary key, mask, message and noise e with
\* |e| < 2^58, the modulus-switched ciphertext decrypts and decodes to m.
ModswitchEveryKey ==
  (pc = "ms_decoded" /\ op = "modswitch" /\ InHalfMargin(e1)) => pt = m1

\* C3 as amended: the same for every binary key with at most 63 entries
\* equal to 1.
ModswitchLightKey ==
  (pc = "ms_decoded" /\ op = "modswitch" /\ InHalfMargin(e1) /\ Weight(sk) <= 63)
    => pt = m1

\* 63 key entries equal to 1, every mask entry half a unit below a rounding
\* point, and the largest admitted noise
ModswitchLightKeyWitness ==
  /\ pc = "ms_decoded" /\ op = "modswitch"
  /\ Weight(sk) = 63
  /\ ct1.mask = MaskOf(WSub(P2(52), W1), WSub(P2(52), W1))
  /\ e1 = WSub(P2(58), W1)
  /\ pt = m1

\* C9: no call of the LWE operations ends in an arithmetic-overflow fault,
\* whatever 64-bit values the ciphertext holds.
NoOverflowFault == ~panicked

\* C10: every coordinate of modswitch(ct) is ((v >> 52) + 1) >> 1 of the
\* input coordinate v and lies in [0, 2 * LWE_DIM).
ModswitchRange ==
  pc = "modswitched" =>
    /\ \A i \in Idx :
         /\ res.mask[i] = Shr(WAdd(Shr(ct1.mask[i], 52), W1), 1)
         /\ Small(res.mask[i]) < TwoN
    /\ res.body = Shr(WAdd(Shr(ct1.body, 52), W1), 1)
    /\ Small(res.body) < TwoN

(***************************************************************************)
(* Key switch (test_keyswitch).                                            *)
(***************************************************************************)
KsKeyPairs == {<<Ones(LWE_DIM), Alternating>>, <<Alternating, Ones(63)>>}
KsMasks == {MaskOf(MaxWord, WSub(P2(52), W1))}
\* noises of the size of the standard deviation 2^29 of encrypt
KsNoises == {P2(29), NegW(P2(29))}
KskNoiseWords == {W0, P2(29)}

\* the noise of entry n of the key-switching key: c and -c in turn
KskNoises(c) == [n \in 1..(LWE_DIM * ELL) |-> IF n % 2 = 1 THEN c ELSE NegW(c)]
\* the mask of entry n of the key-switching key
KskMasks ==
  [n \in 1..(LWE_DIM * ELL) |->
     IF n % 3 = 0 THEN MaskOf(MaxWord, W1) ELSE MaskOf(WSub(P2(52), W1), MaxWord)]

\* sk1 = lwe_keygen(); sk2 = lwe_keygen()
KeygenPair ==
  /\ pc = "start"
  /\ \E p \in KsKeyPairs : sk' = p[1] /\ sk2' = p[2]
  /\ pc' = "pair"
  /\ UNCHANGED <<ksk, ksk_e, m1, e1, m2, e2, ct1, ct2, op, res, mu, pt, panicked>>

\* ksk = compute_ksk(sk1, sk2)
ComputeKsk ==
  /\ pc = "pair"
  /\ \E c \in KskNoiseWords :
       /\ ksk_e' = KskNoises(c)
       /\ ksk' = compute_ksk(sk, sk2, KskNoises(c), KskMasks)
  /\ pc' = "keyed"
  /\ UNCHANGED <<sk, sk2, m1, e1, m2, e2, ct1, ct2, op, res, mu, pt, panicked>>

\* res = ct1.keyswitch(ksk.clone())
DoKeyswitch ==
  /\ pc = "one"
  /\ res' = keyswitch(ct1, ksk)
  /\ op' = "keyswitch"
  /\ pc' = "switched"
  /\ UNCHANGED <<sk, sk2, ksk, ksk_e, m1, e1, m2, e2, ct1, ct2, mu, pt, panicked>>

\* mu = res.decrypt(sk2)
DoDecryptSwitched ==
  /\ pc = "switched"
  /\ mu' = decrypt(res, sk2)
  /\ pc' = "decrypted"
  /\ UNCHANGED <<sk, sk2, ksk, ksk_e, m1, e1, m2, e2, ct1, ct2, op, res, pt, panicked>>

NextKeyswitch ==
  \/ KeygenPair
  \/ ComputeKsk
  \/ EncryptFirst(KsNoises, KsMasks)
  \/ DoKeyswitch
  \/ DoDecryptSwitched
  \/ DoDecode

SpecKeyswitch == Init /\ [][NextKeyswitch]_vars

\* C2: key-switch correctness.  A ciphertext of m under sk1, key-switched
\* with compute_ksk(sk1, sk2), decrypts under sk2 and decodes to m, for
\* noises small against the decoding margin 2^59.
KeyswitchCorrect ==
  (pc = "decoded" /\ op = "keyswitch") => pt = m1

\* the message 15 switched from the all-ones key, with noise in the
\* key-switching key
KeyswitchCorrectWitness ==
  /\ pc = "decoded" /\ op = "keyswitch"
  /\ sk = Ones(LWE_DIM)
  /\ ksk_e[1] = P2(29)
  /\ m1 = 15
  /\ pt = 15

\* C8: compute_ksk returns LWE_DIM * ELL ciphertexts, and the entry at
\* index ELL * i + j decrypts under the destination key to source_key[i]
\* shifted left by 48 (j = 0) or 56 (j = 1), plus the noise of that entry.
KskLayout ==
  pc = "keyed" =>
    /\ Len(ksk) = LWE_DIM * ELL
    /\ \A i \in 0..(LWE_DIM - 1), j \in 0..(ELL - 1) :
         decrypt(ksk[ELL * i + j + 1], sk2)
           = WAdd(Shl(sk[i + 1], IF j = 0 THEN 48 ELSE 56), ksk_e[ELL * i + j + 1])

\* a key-switching key with noise in its entries, built from a source key
\* holding both a 1 and a 0
KskLayoutWitness ==
  /\ pc = "keyed"
  /\ sk = Alternating
  /\ ksk_e[2] = NegW(P2(29))
  /\ decrypt(ksk[4], sk2) = WSub(P2(56), P2(29))
  /\ decrypt(ksk[1], sk2) = P2(29)

(***************************************************************************)
(* glwe.rs.  A ring element (ResiduePoly) is the array of its N            *)
(* coefficients, each a u64; coefficient j of the code is index j + 1.     *)
(* The model explores a ring degree far below the configured one.          *)
(***************************************************************************)
N == 4
k == 1

\* ResiduePoly::default
poly_default == [j \in 1..N |-> W0]

\* ResiduePoly::add: coefficientwise wrapping addition
poly_add(a, b) == [j \in 1..N |-> WAdd(a[j], b[j])]

\* ResiduePoly::sub: coefficientwise wrapping subtraction
poly_sub(a, b) == [j \in 1..N |-> WSub(a[j], b[j])]

\* ResiduePoly::add_constant_assign: the constant is added to coefficient 0
poly_add_constant_assign(a, c) == [a EXCEPT ![1] = WAdd(a[1], c)]

\* the sum over i = lo..N of the products contributing to coefficient j of
\* a * b modulo X^N + 1: a[i] * b[j - i], negated where the degree wraps
RECURSIVE MulCoef(_, _, _, _)
MulCoef(a, b, j, lo) ==
  IF lo > N THEN W0
  ELSE LET term == IF lo <= j THEN WMul(a[lo], b[j - lo + 1])
                   ELSE NegW(WMul(a[lo], b[j - lo + 1 + N]))
       IN  WAdd(term, MulCoef(a, b, j, lo + 1))

\* ResiduePoly::mul: the product in the ring of polynomials modulo X^N + 1
poly_mul(a, b) == [j \in 1..N |-> MulCoef(a, b, j, 1)]

\* GlweCiphertext::default
glwe_default == [mask |-> [i \in 1..k |-> poly_default], body |-> poly_default]

\* GlweCiphertext::encrypt; the Gaussian sample e and the uniformly drawn
\* mask are its two random draws
glwe_encrypt(message, key, e, mask) ==
  LET mu_star == WAdd(message, e)
      body == poly_mul(mask[1], key.polys[1])
  IN  [mask |-> mask, body |-> poly_add_constant_assign(body, mu_star)]

\* GlweCiphertext::decrypt
glwe_decrypt(ct, key) ==
  LET body == poly_mul(ct.mask[1], key.polys[1])
      mu_star == poly_sub(ct.body, body)
  IN  mu_star[1]

\* add that keeps the mask of self
glwe_add_mask_kept(lhs, rhs) ==
  [mask |-> [i \in 1..k |-> lhs.mask[i]],
   body |-> poly_add(lhs.body, rhs.body)]

\* GlweCiphertext::add
glwe_add(lhs, rhs) ==
  [mask |-> [i \in 1..k |-> poly_add(lhs.mask[i], rhs.mask[i])],
   body |-> poly_add(lhs.body, rhs.body)]

\* glwe::encode
glwe_encode(msg) == Shl(ToWord(msg), 60)

\* glwe::decode
glwe_decode(m) == Small(Shr(WAdd(Shr(m, 59), W1), 1)) % 16

\* the secret key whose ring element has its first h coefficients equal to 1
GlweOnes(h) == [polys |-> [i \in 1..k |-> [j \in 1..N |-> IF j <= h THEN W1 ELSE W0]]]
\* the secret key whose ring element has its odd coefficients equal to 1
GlweAlternating == [polys |-> [i \in 1..k |-> [j \in 1..N |-> IF j % 2 = 0 THEN W1 ELSE W0]]]
\* the mask whose ring element alternates between the coefficients u and v
GlweMaskOf(u, v) == [i \in 1..k |-> [j \in 1..N |-> IF j % 2 = 1 THEN u ELSE v]]

GlweKeys == {GlweOnes(1), GlweOnes(N), GlweAlternating}
GlweMasks1 == {GlweMaskOf(MaxWord, WSub(P2(52), W1))}
GlweMasks2 == {GlweMaskOf(P2(63), MaxWord)}

\* glwe::keygen
GlweKeygen ==
  /\ pc = "start"
  /\ sk' \in GlweKeys
  /\ pc' = "glwe_keyed"
  /\ UNCHANGED <<sk2, ksk, ksk_e, m1, e1, m2, e2, ct1, ct2, op, res, mu, pt, panicked>>

\* ct1 = GlweCiphertext::encrypt(encode(m), sk)
GlweEncryptFirst ==
  /\ pc = "glwe_keyed"
  /\ \E m \in 0..15, e \in HomNoises1, a \in GlweMasks1 :
       /\ m1' = m
       /\ e1' = e
       /\ ct1' = glwe_encrypt(glwe_encode(m), sk, e, a)
  /\ pc' = "glwe_one"
  /\ UNCHANGED <<sk, sk2, ksk, ksk_e, m2, e2, ct2, op, res, mu, pt, panicked>>

\* ct2 = GlweCiphertext::encrypt(encode(m), sk)
GlweEncryptSecond ==
  /\ pc = "glwe_one"
  /\ \E m \in 0..15, e \in HomNoises2, a \in GlweMasks2 :
       /\ m2' = m
       /\ e2' = e
       /\ ct2' = glwe_encrypt(glwe_encode(m), sk, e, a)
  /\ pc' = "glwe_two"
  /\ UNCHANGED <<sk, sk2, ksk, ksk_e, m1, e1, ct1, op, res, mu, pt, panicked>>

\* res = ct1.add(ct2)
GlweAdd ==
  /\ pc = "glwe_two"
  /\ res' = glwe_add(ct1, ct2)
  /\ op' = "add"
  /\ pc' = "glwe_combined"
  /\ UNCHANGED <<sk, sk2, ksk, ksk_e, m1, e1, m2, e2, ct1, ct2, mu, pt, panicked>>

\* mu = ct.decrypt(sk), of the fresh ciphertext or of the sum
GlweDecrypt ==
  /\ pc \in {"glwe_one", "glwe_combined"}
  /\ mu' = glwe_decrypt(IF pc = "glwe_one" THEN ct1 ELSE res, sk)
  /\ pc' = "glwe_decrypted"
  /\ UNCHANGED <<sk, sk2, ksk, ksk_e, m1, e1, m2, e2, ct1, ct2, op, res, pt, panicked>>

\* pt = decode(mu)
GlweDecode ==
  /\ pc = "glwe_decrypted"
  /\ pt' = glwe_decode(mu)
  /\ pc' = "glwe_decoded"
  /\ UNCHANGED <<sk, sk2, ksk, ksk_e, m1, e1, m2, e2, ct1, ct2, op, res, mu, panicked>>

NextGlwe ==
  \/ GlweKeygen
  \/ GlweEncryptFirst
  \/ GlweEncryptSecond
  \/ GlweAdd
  \/ GlweDecrypt
  \/ GlweDecode

SpecGlwe == Init /\ [][NextGlwe]_vars

\* C6: GLWE additive homomorphism at ring dimension k = 1.  For a key with
\* binary coefficients and noises with -2^59 <= e1 + e2 < 2^59, the sum of
\* two ciphertexts decrypts and decodes to (m1 + m2) mod 16.
GlweAddHomomorphic ==
  (pc = "glwe_decoded" /\ op = "add" /\ InMargin(WAdd(e1, e2)))
    => pt = (m1 + m2) % 16

\* 15 + 5 wraps to 4 under the all-ones key, whose products wrap around the
\* ring degree, with the summed noise at the bottom of the margin
GlweAddHomomorphicWitness ==
  /\ pc = "glwe_decoded" /\ op = "add"
  /\ sk = GlweOnes(N)
  /\ m1 = 15 /\ m2 = 5
  /\ e1 = NegW(P2(58)) /\ e2 = NegW(P2(58))
  /\ pt = 4

(***************************************************************************)
(* lib.rs: the coarse encode/decode pair over u8.  A call returns          *)
(* [panic, val]; a failed assert! is a panic.                              *)
(***************************************************************************)
P == 16
Q == 64

\* lib encode with the assertion msg <= P
lib_encode_weak_assert(msg) ==
  IF ~(msg <= P) THEN [panic |-> TRUE, val |-> None]
  ELSE [panic |-> FALSE, val |-> (msg * (Q \div P)) % 2^8]

\* lib::encode (the product is a u8)
lib_encode(msg) ==
  IF ~(msg < P) THEN [panic |-> TRUE, val |-> None]
  ELSE [panic |-> FALSE, val |-> (msg * (Q \div P)) % 2^8]

\* lib::decode (the product and the quotient are u16, the result a u8)
lib_decode(m) ==
  IF ~(m < Q) THEN [panic |-> TRUE, val |-> None]
  ELSE [panic |-> FALSE, val |-> (((m * P) % 2^16) \div Q) % 2^8]

Bytes == 0..255

\* mu = encode(msg), for any u8
CoarseEncode ==
  /\ pc = "start"
  /\ \E msg \in Bytes :
       /\ m1' = msg
       /\ mu' = lib_encode(msg).val
       /\ panicked' = lib_encode(msg).panic
  /\ pc' = "coarse_encoded"
  /\ UNCHANGED <<sk, sk2, ksk, ksk_e, e1, m2, e2, ct1, ct2, op, res, pt>>

\* pt = decode(mu), for any u8
CoarseDecode ==
  /\ pc = "start"
  /\ \E b \in Bytes :
       /\ mu' = b
       /\ pt' = lib_decode(b).val
       /\ panicked' = lib_decode(b).panic
  /\ pc' = "coarse_decoded"
  /\ UNCHANGED <<sk, sk2, ksk, ksk_e, m1, e1, m2, e2, ct1, ct2, op, res>>

\* pt = decode(mu), of the value encode returned
CoarseDecodeEncoded ==
  /\ pc = "coarse_encoded"
  /\ ~panicked
  /\ pt' = lib_decode(mu).val
  /\ panicked' = lib_decode(mu).panic
  /\ pc' = "coarse_roundtrip"
  /\ UNCHANGED <<sk, sk2, ksk, ksk_e, m1, e1, m2, e2, ct1, ct2, op, res, mu>>

NextCoarse ==
  \/ CoarseEncode
  \/ CoarseDecode
  \/ CoarseDecodeEncoded

SpecCoarse == Init /\ [][NextCoarse]_vars

\* C7: coarse encode fails exactly when msg >= 16 and otherwise returns
\* msg * 4; coarse decode fails exactly when mu >= 64 and otherwise returns
\* floor(mu * 16 / 64); for msg below 16, encode(msg) is below 64, fits in
\* 8 bits, passes the assertion of decode, and decode(encode(msg)) = msg.
CoarseContract ==
  /\ pc = "coarse_encoded" =>
       /\ panicked <=> m1 >= 16
       /\ ~panicked => (mu = m1 * 4 /\ m1 * 4 < 256 /\ mu < 64)
  /\ pc = "coarse_decoded" =>
       /\ panicked <=> mu >= 64
       /\ ~panicked => pt = (mu * 16) \div 64
  /\ pc = "coarse_roundtrip" => (~panicked /\ pt = m1)

\* the largest message, encoded to 60 and decoded back
CoarseContractWitness ==
  /\ pc = "coarse_roundtrip"
  /\ m1 = 15 /\ mu = 60 /\ pt = 15
  /\ ~panicked

====
